---- MODULE Spec2Model ----
(***************************************************************************)
(* Model of the memory-augmented multimodal pipeline of MultimodelAi:      *)
(* the Inference Gateway client (lib/cloudflare-ai.ts), the vector index   *)
(* client (lib/vectorize-service.ts), the RAG service (lib/rag-service.ts) *)
(* and the request handlers under app/api.                                 *)
(*                                                                         *)
(* Texts are sequences of tokens (strings); <<>> is the empty string.      *)
(* An embedding vector is [dim, pos]: its length and an abstract position  *)
(* from which the index computes similarity.  Every upstream HTTP answer   *)
(* is an input chosen by the environment.                                  *)
(***************************************************************************)
EXTENDS Integers, Sequences, FiniteSets, TLC

\* ---------------------------------------------------------------- bounds
MaxRecords == 3      \* capacity of the vector index behind the endpoints
MaxSvcRecords == 2   \* capacity of the vector index under direct calls
MaxNow     == 1      \* largest value of the wall clock
NumPos     == 2      \* number of distinct embedding positions
MaxTopK    == 2      \* largest limit passed to a direct retrieveContext call
MaxFrames  == 2      \* largest number of frames a video request submits
MaxSubmitted == 6    \* largest number of frames a full-length video submits
MaxBatchRecords == 3 \* capacity of the vector index under batch inserts
MaxInstances == 3    \* clients constructed before the process stops taking requests
MaxDuration == 6      \* longest video handed to extractFrames, in seconds
MaxInterval == 3      \* largest intervalSeconds passed to extractFrames
MaxExtract == 3       \* largest maxFrames passed to extractFrames

\* ------------------------------------------------------ program constants
DefaultTopK    == 5
ChatTopK       == 5
FrameLimit     == 5
EmbeddingDim   == 768
maxAudioSize   == 5 * 1024 * 1024

\* ------------------------------------------------------------ JS helpers
Undefined == "undefined"
NoText    == <<"<undefined>">>

Includes(text, tok) == \E i \in 1..Len(text) : text[i] = tok

Truthy(text) == text # <<>> /\ text # NoText

\* a || b on texts
OrText(a, b) == IF Truthy(a) THEN a ELSE b

\* { ...a, ...b }: keys of b override keys of a
Spread(a, b) == b @@ a

Range(s) == { s[i] : i \in 1..Len(s) }

\* ------------------------------------------------- Inference Gateway
EmptyVec == [dim |-> 0, pos |-> 0]
Vectors  == [dim : {EmbeddingDim}, pos : 1..NumPos]

\* upstream answers of the embedding model: a non-success status, or a
\* success whose body carries the vectors under data or under result.data
EmbedResponses ==
    { [ok |-> FALSE, data |-> <<>>, resultData |-> <<>>] }
    \cup { [ok |-> TRUE, data |-> <<>>, resultData |-> <<>>] }
    \cup { [ok |-> TRUE, data |-> <<v>>, resultData |-> <<>>] : v \in Vectors }
    \cup { [ok |-> TRUE, data |-> <<>>, resultData |-> <<[dim |-> EmbeddingDim, pos |-> 1]>>] }

generateEmbedding(resp) ==
    IF ~resp.ok THEN [ok |-> FALSE, value |-> EmptyVec]
    ELSE IF Len(resp.data) > 0 THEN [ok |-> TRUE, value |-> resp.data[1]]
    ELSE IF Len(resp.resultData) > 0 THEN [ok |-> TRUE, value |-> resp.resultData[1]]
    ELSE [ok |-> TRUE, value |-> EmptyVec]

\* upstream answers of the chat model: non-success, or a success whose body
\* carries the text under response, under result.response, or nowhere
ChatResponses ==
    { [ok |-> FALSE, response |-> <<>>, resultResponse |-> <<>>],
      [ok |-> TRUE,  response |-> <<"reply">>, resultResponse |-> <<>>],
      [ok |-> TRUE,  response |-> <<>>, resultResponse |-> <<"reply">>],
      [ok |-> TRUE,  response |-> <<>>, resultResponse |-> <<>>] }

\* aiResponse.response || aiResponse.result?.response || fallback
ResponseText(resp, fallback) ==
    OrText(resp.response, OrText(resp.resultResponse, fallback))

\* ------------------------------------------------- Vector Memory Store
\* similarity the index reports for a stored vector against a query vector
Score(q, v) == IF q.pos = v.pos THEN 90 ELSE 40

Matching(idx, filter) ==
    { i \in 1..Len(idx) : filter = Undefined \/ idx[i].metadata.type = filter }

RECURSIVE TopMatches(_, _, _, _)
TopMatches(idx, cands, q, k) ==
    IF k <= 0 \/ cands = {} THEN <<>>
    ELSE LET best == CHOOSE i \in cands : \A j \in cands :
                         \/ Score(q, idx[i].values) > Score(q, idx[j].values)
                         \/ /\ Score(q, idx[i].values) = Score(q, idx[j].values)
                            /\ i <= j
         IN  <<[id |-> idx[best].id,
                score |-> Score(q, idx[best].values),
                metadata |-> idx[best].metadata]>>
             \o TopMatches(idx, cands \ {best}, q, k - 1)

\* kinds of answer of the index to a query
QueryResponses == {"http_error", "no_result", "no_matches", "matches"}

\* options.topK || 5
RequestTopK(topK) == IF topK = 0 THEN DefaultTopK ELSE topK

\* body of the index's answer: the matches field, <<>> when it is absent
UpstreamMatches(idx, vector, topK, filter, resp) ==
    IF resp = "matches"
    THEN TopMatches(idx, Matching(idx, filter), vector, topK)
    ELSE <<>>

\* query without the "|| []" default: a body without matches is an error
queryNoDefault(idx, vector, topK, filter, resp) ==
    IF resp # "matches" THEN [ok |-> FALSE, value |-> <<>>]
    ELSE [ok |-> TRUE,
          value |-> UpstreamMatches(idx, vector, RequestTopK(topK), filter, resp)]

query(idx, vector, topK, filter, resp) ==
    IF resp = "http_error" THEN [ok |-> FALSE, value |-> <<>>]
    ELSE [ok |-> TRUE,
          value |-> UpstreamMatches(idx, vector, RequestTopK(topK), filter, resp)]

InsertResponses == {"ok", "error"}

insert(idx, points, resp) ==
    IF resp = "ok" THEN [ok |-> TRUE, index |-> idx \o points]
    ELSE [ok |-> FALSE, index |-> idx]

\* ------------------------------------------------------- Memory Service
\* uuidv4(): an identifier no record of the index carries
FreshId(idx, taken) ==
    CHOOSE n \in 1..(Len(idx) + Cardinality(taken) + 1) :
        /\ n \notin taken
        /\ \A i \in 1..Len(idx) : idx[i].id # n
        /\ \A m \in 1..(n - 1) : m \in taken \/ \E i \in 1..Len(idx) : idx[i].id = m

storeMemory(idx, content, type, metadata, time, taken, embResp, insResp) ==
    LET emb   == generateEmbedding(embResp)
        id    == FreshId(idx, taken)
        point == [id |-> id,
                  values |-> emb.value,
                  metadata |-> Spread([content |-> content,
                                       timestamp |-> time,
                                       type |-> type], metadata)]
        ins   == insert(idx, <<point>>, insResp)
    IN  IF ~emb.ok THEN [ok |-> FALSE, id |-> 0, index |-> idx]
        ELSE IF ~ins.ok THEN [ok |-> FALSE, id |-> id, index |-> idx]
        ELSE [ok |-> TRUE, id |-> id, index |-> ins.index]

NoContext == [defined |-> FALSE, relevant_memories |-> <<>>]

retrieveContext(idx, limit, type, embResp, qResp) ==
    LET emb     == generateEmbedding(embResp)
        filter  == IF type # Undefined THEN type ELSE Undefined
        results == query(idx, emb.value, limit, filter, qResp)
    IN  IF ~emb.ok \/ ~results.ok THEN [ok |-> FALSE, value |-> NoContext]
        ELSE [ok |-> TRUE,
              value |-> [defined |-> TRUE,
                         relevant_memories |->
                            [i \in 1..Len(results.value) |->
                                [content   |-> results.value[i].metadata.content,
                                 score     |-> results.value[i].score,
                                 type      |-> results.value[i].metadata.type,
                                 timestamp |-> results.value[i].metadata.timestamp,
                                 id        |-> results.value[i].id]]]]

\* ------------------------------------------------------------------ state
VARIABLES
    index,        \* records held by the vector index, in insertion order
    now,          \* Date.now()
    env,          \* process.env: which configuration values are set
    ragService,   \* route modules whose ragService singleton is constructed
    req,          \* the request being handled
    pc,           \* position of the handler of the request
    calls,        \* collaborator operations the request has invoked, in order
    context,      \* chatWithContext: the retrieved RAGContext
    ownIds,       \* ids of the records this request has created
    url,          \* imageUrl / audioUrl / videoUrl
    transcript,   \* audio route: transcript
    answer,       \* answer / responseText
    frameState,   \* video route: state of each describeImage call
    response,     \* the HTTP response of the request
    lastCall,     \* direct call of a Memory Service method and its outcome
    instances,    \* number of instances constructed of each collaborator client
    client        \* browser side: the VideoUpload component and VideoProcessor

vars == <<index, now, env, ragService, req, pc, calls, context, ownIds, url,
          transcript, answer, frameState, response, lastCall, instances,
          client>>

reqVars == <<req, pc, calls, context, ownIds, url, transcript, answer,
             frameState, response>>

MemoryTypes == {"text", "image", "video", "audio"}

EmptyMeta == <<>>

NoRequest ==
    [endpoint |-> "none", message |-> <<>>, history |-> <<>>, useMemory |-> FALSE,
     hasFile |-> FALSE, size |-> 0, question |-> <<>>, saveToMemory |-> FALSE,
     framesField |-> "absent", numFrames |-> 0, audioTranscript |-> <<>>,
     content |-> <<>>, type |-> Undefined, metadata |-> EmptyMeta, variant |-> 0]

NoResponse ==
    [status |-> 0, error |-> <<>>, response |-> NoText, context |-> NoContext,
     memorySaved |-> FALSE, url |-> Undefined, transcript |-> NoText,
     answer |-> NoText, frameAnalyses |-> <<>>, audioTranscript |-> NoText,
     fileSizeMB |-> 0, transcriptionSkipped |-> FALSE, id |-> 0,
     success |-> FALSE]

\* the collaborator clients: CloudflareAI, VectorizeService, R2Service
NoInstances == [ai |-> 0, vectorize |-> 0, r2 |-> 0]

\* new CloudflareAI(...) / new R2Service(...)
Construct(class) == instances' = [instances EXCEPT ![class] = @ + 1]

NoClient == [op |-> "none"]

NoCall ==
    [op |-> "none", text |-> <<>>, limit |-> 0, metadata |-> EmptyMeta,
     emb |-> [ok |-> FALSE, data |-> <<>>, resultData |-> <<>>],
     up |-> "none", threw |-> FALSE, id |-> 0, before |-> <<>>,
     value |-> NoContext, points |-> <<>>]

InitCommon ==
    /\ index = <<>>
    /\ now = 0
    /\ ragService = {}
    /\ req = NoRequest
    /\ pc = "idle"
    /\ calls = <<>>
    /\ context = NoContext
    /\ ownIds = {}
    /\ url = Undefined
    /\ transcript = <<>>
    /\ answer = <<>>
    /\ frameState = <<>>
    /\ response = NoResponse
    /\ lastCall = NoCall
    /\ instances = NoInstances
    /\ client = NoClient

\* Date.now() advances
Tick ==
    /\ now < MaxNow
    /\ now' = now + 1
    /\ UNCHANGED <<index, env, client, ragService, instances, reqVars, lastCall>>

\* --------------------------------- direct calls of the Memory Service
SvcTexts == { <<>>, <<"note">> }

SvcMetadata == { [role |-> "user"] }

\* a program calls RAGService.storeMemory(content, type, metadata)
CallStoreMemory ==
    \E content \in SvcTexts, type \in {"text"}, metadata \in SvcMetadata,
       embResp \in EmbedResponses, insResp \in InsertResponses :
        /\ insResp = "ok" => Len(index) < MaxSvcRecords
        /\ LET r == storeMemory(index, content, type, metadata, now, {},
                                embResp, insResp)
           IN  /\ index' = r.index
               /\ lastCall' = [NoCall EXCEPT !.op = "store", !.text = content,
                                   !.metadata = metadata, !.emb = embResp,
                                   !.up = insResp, !.threw = ~r.ok,
                                   !.id = r.id, !.before = index]
        /\ UNCHANGED <<now, env, client, ragService, instances, reqVars>>

\* a program calls RAGService.retrieveContext(query, limit, type)
CallRetrieveContext ==
    \E limit \in 0..MaxTopK, type \in {Undefined, "image"},
       embResp \in EmbedResponses, qResp \in QueryResponses :
        /\ LET r == retrieveContext(index, limit, type, embResp, qResp)
           IN  lastCall' = [NoCall EXCEPT !.op = "retrieve", !.limit = limit,
                                !.emb = embResp, !.up = qResp,
                                !.threw = ~r.ok, !.before = index,
                                !.value = r.value]
        /\ UNCHANGED <<index, now, env, client, ragService, instances, reqVars>>

InitMem ==
    /\ InitCommon
    /\ env = [hasCreds |-> TRUE, hasPublicUrl |-> TRUE]

NextMem == CallStoreMemory \/ CallRetrieveContext

SpecMem == InitMem /\ [][NextMem]_vars

\* ------------------------------------------ batches of vector points
\* upstream answers of the embedding model to a batch of two texts: a
\* non-success status, or a success carrying no, one or two vectors under
\* data or under result.data
BatchEmbedResponses ==
    LET v == [dim |-> EmbeddingDim, pos |-> 1]
    IN  { [ok |-> FALSE, data |-> <<>>, resultData |-> <<>>],
          [ok |-> TRUE,  data |-> <<>>, resultData |-> <<>>],
          [ok |-> TRUE,  data |-> <<v>>, resultData |-> <<>>],
          [ok |-> TRUE,  data |-> <<v, v>>, resultData |-> <<>>],
          [ok |-> TRUE,  data |-> <<>>, resultData |-> <<v, v>>] }

\* result.data || result.result?.data || []
generateEmbeddings(resp) ==
    IF ~resp.ok THEN [ok |-> FALSE, value |-> <<>>]
    ELSE IF Len(resp.data) > 0 THEN [ok |-> TRUE, value |-> resp.data]
    ELSE [ok |-> TRUE, value |-> resp.resultData]

\* embeddings[index]: past the end of the list the point carries no values
ValuesAt(embeddings, i) ==
    IF i <= Len(embeddings) THEN embeddings[i] ELSE EmptyVec

BatchItems ==
    << [content |-> <<"first">>, type |-> "text", metadata |-> EmptyMeta],
       [content |-> <<"second">>, type |-> "text", metadata |-> EmptyMeta] >>

RECURSIVE FreshIds(_, _, _)
FreshIds(idx, taken, n) ==
    IF n = 0 THEN <<>>
    ELSE LET id == FreshId(idx, taken)
         IN  <<id>> \o FreshIds(idx, taken \cup {id}, n - 1)

storeMultipleMemories(idx, items, time, embResp, insResp) ==
    LET emb    == generateEmbeddings(embResp)
        ids    == FreshIds(idx, {}, Len(items))
        points == [i \in 1..Len(items) |->
                      [id |-> ids[i],
                       values |-> ValuesAt(emb.value, i),
                       metadata |-> Spread([content |-> items[i].content,
                                            timestamp |-> time,
                                            type |-> items[i].type],
                                           items[i].metadata)]]
        ins    == insert(idx, points, insResp)
    IN  IF ~emb.ok THEN [ok |-> FALSE, points |-> <<>>, index |-> idx]
        ELSE IF ~ins.ok THEN [ok |-> FALSE, points |-> points, index |-> idx]
        ELSE [ok |-> TRUE, points |-> points, index |-> ins.index]

\* a program calls RAGService.storeMultipleMemories(items)
CallStoreMultipleMemories ==
    \E embResp \in BatchEmbedResponses, insResp \in InsertResponses :
        /\ insResp = "ok" => Len(index) + Len(BatchItems) <= MaxBatchRecords
        /\ LET r == storeMultipleMemories(index, BatchItems, now, embResp, insResp)
           IN  /\ index' = r.index
               /\ lastCall' = [NoCall EXCEPT !.op = "storeMultiple",
                                   !.emb = embResp, !.up = insResp,
                                   !.threw = ~r.ok, !.before = index,
                                   !.points = r.points]
        /\ UNCHANGED <<now, env, client, ragService, instances, reqVars>>

\* the vectors a caller of VectorizeService.insert may hand over
PointValues == { EmptyVec, [dim |-> EmbeddingDim, pos |-> 1] }

\* a program calls VectorizeService.insert(points) with one or two points
CallInsert ==
    \E n \in 1..2, vals \in [1..2 -> PointValues], insResp \in InsertResponses :
        /\ insResp = "ok" => Len(index) + n <= MaxBatchRecords
        /\ LET ids    == FreshIds(index, {}, n)
               points == [i \in 1..n |->
                             [id |-> ids[i], values |-> vals[i],
                              metadata |-> [content |-> <<"point">>,
                                            timestamp |-> now,
                                            type |-> "text"]]]
               r      == insert(index, points, insResp)
           IN  /\ index' = r.index
               /\ lastCall' = [NoCall EXCEPT !.op = "insert", !.up = insResp,
                                   !.threw = ~r.ok, !.before = index,
                                   !.points = points]
        /\ UNCHANGED <<now, env, client, ragService, instances, reqVars>>

NextBatch == CallInsert \/ CallStoreMultipleMemories

SpecBatch == InitMem /\ [][NextBatch]_vars

\* ------------------------------------------------- HTTP responses
Json(fields) == fields @@ NoResponse

ErrorResponse(code, msg) == Json([status |-> code, error |-> msg])

\* the outer catch of a route handler: any throw becomes a 500 response
Throw500(msg) ==
    /\ response' = ErrorResponse(500, msg)
    /\ pc' = "done"

\* getRAGService(): the module-level singleton of a route, constructed on
\* first use; throws when the credentials are missing
\* getRAGService() without the test of the credentials
CanGetRAGServiceUnchecked(route) == TRUE

CanGetRAGService(route) == route \in ragService \/ env.hasCreds

GetRAGService(route) ==
    /\ ragService' = ragService \cup {route}
    /\ instances' = IF route \in ragService THEN instances
                    ELSE [instances EXCEPT !.ai = @ + 1, !.vectorize = @ + 1]

Call(op, ok, arg) == [op |-> op, ok |-> ok, arg |-> arg]

CallsOf(op) == { i \in 1..Len(calls) : calls[i].op = op }

\* a handler starts on a request once the previous one has been answered
Accept(r) ==
    /\ pc \in {"idle", "done"}
    /\ req' = r
    /\ calls' = <<>>
    /\ context' = NoContext
    /\ ownIds' = {}
    /\ url' = Undefined
    /\ transcript' = <<>>
    /\ answer' = <<>>
    /\ frameState' = <<>>
    /\ response' = NoResponse
    /\ UNCHANGED <<index, now, env, ragService, instances, lastCall>>

\* a new request arrives from outside the modelled client
Receive(r) == Accept(r) /\ UNCHANGED client

\* ------------------------------------------------------- chat endpoint
ChatRequests ==
    { [NoRequest EXCEPT !.endpoint = "chat", !.message = m, !.history = h,
                        !.useMemory = u] :
        m \in { <<>>, <<"hello">> },
        h \in { <<>>, <<[role |-> "user", content |-> <<"earlier">>]>> },
        u \in BOOLEAN }

ReceiveChat ==
    /\ \E r \in ChatRequests : Receive(r)
    /\ pc' = "chat_validate"

\* the awaits of chatWithContext, in program order
ChatStagesSwapped(useMemory) ==
    IF useMemory
    THEN <<"chat_store_user", "chat_retrieve", "chat_complete", "chat_store_reply">>
    ELSE <<"chat_complete">>

ChatStagesOneStore(useMemory) ==
    IF useMemory
    THEN <<"chat_retrieve", "chat_store_user", "chat_complete">>
    ELSE <<"chat_complete">>

ChatStages(useMemory) ==
    IF useMemory
    THEN <<"chat_retrieve", "chat_store_user", "chat_complete", "chat_store_reply">>
    ELSE <<"chat_complete">>

StageAfter(stages, cur) ==
    LET i == CHOOSE k \in 1..Len(stages) : stages[k] = cur
    IN  IF i = Len(stages) THEN "done" ELSE stages[i + 1]

\* chat/route.ts POST up to the call of chatWithContext
ChatValidate ==
    /\ pc = "chat_validate"
    /\ IF ~Truthy(req.message)
       THEN /\ response' = ErrorResponse(400, <<"Message is required">>)
            /\ pc' = "done"
            /\ UNCHANGED <<ragService, instances>>
       ELSE IF ~CanGetRAGService("chat")
       THEN /\ response' = ErrorResponse(500, <<"Missing Cloudflare credentials">>)
            /\ pc' = "done"
            /\ UNCHANGED <<ragService, instances>>
       ELSE /\ GetRAGService("chat")
            /\ pc' = ChatStages(req.useMemory)[1]
            /\ UNCHANGED response
    /\ UNCHANGED <<index, now, env, client, req, calls, context, ownIds, url, transcript,
                   answer, frameState, lastCall>>

ContextHeader ==
    <<"You are a helpful AI assistant with access to previous conversation context.",
      "Relevant context from previous interactions:">>

ContextFooter ==
    <<"Use this context to provide more informed and contextual responses.">>

PlainPrompt == <<"You are a helpful AI assistant.">>

RECURSIVE MemoryLines(_, _)
MemoryLines(mems, i) ==
    IF i > Len(mems) THEN <<>>
    ELSE <<ToString(i), mems[i].type, "relevance:", ToString(mems[i].score)>>
         \o mems[i].content \o MemoryLines(mems, i + 1)

SystemPromptAlways(useMemory, ctx) ==
    IF useMemory /\ ctx.defined
    THEN ContextHeader \o MemoryLines(ctx.relevant_memories, 1) \o ContextFooter
    ELSE PlainPrompt

SystemPrompt(useMemory, ctx) ==
    IF useMemory /\ ctx.defined /\ Len(ctx.relevant_memories) > 0
    THEN ContextHeader \o MemoryLines(ctx.relevant_memories, 1) \o ContextFooter
    ELSE PlainPrompt

ChatMessages(systemPrompt, history, userMessage) ==
    <<[role |-> "system", content |-> systemPrompt]>>
    \o [i \in 1..Len(history) |-> [role |-> history[i].role,
                                   content |-> history[i].content]]
    \o <<[role |-> "user", content |-> userMessage]>>

ChatOk(text, ctx) == Json([status |-> 200, response |-> text, context |-> ctx])

\* a stage of chatWithContext threw and the failure is swallowed
ChatSwallow(msg) ==
    LET next == StageAfter(ChatStages(req.useMemory), pc)
    IN  /\ pc' = next
        /\ response' = IF next = "done" THEN ChatOk(answer, context) ELSE response

\* a stage of chatWithContext threw and is invoked again
ChatRetry(msg) == UNCHANGED <<pc, response>>

\* a stage of chatWithContext threw: chatWithContext rethrows and the route
\* answers 500
ChatThrow(msg) ==
    /\ response' = ErrorResponse(500, msg)
    /\ pc' = "done"

\* a stage of chatWithContext finished: go on, or return from the last one
ChatAdvance(text, ctx) ==
    LET next == StageAfter(ChatStages(req.useMemory), pc)
    IN  /\ pc' = next
        /\ response' = IF next = "done" THEN ChatOk(text, ctx) ELSE response

ChatRetrieve ==
    /\ pc = "chat_retrieve"
    /\ \E embResp \in EmbedResponses, qResp \in QueryResponses :
         LET r == retrieveContext(index, ChatTopK, Undefined, embResp, qResp)
         IN  /\ calls' = Append(calls, Call("retrieve", r.ok, req.message))
             /\ IF r.ok
                THEN /\ context' = r.value
                     /\ ChatAdvance(answer, r.value)
                ELSE /\ ChatThrow(<<"retrieve failed">>)
                     /\ UNCHANGED context
    /\ UNCHANGED <<index, now, env, client, ragService, instances, req, ownIds, url, transcript,
                   answer, frameState, lastCall>>

ChatStore(stage, text, role) ==
    /\ pc = stage
    /\ \E embResp \in EmbedResponses, insResp \in InsertResponses :
         /\ insResp = "ok" => Len(index) < MaxRecords
         /\ LET r == storeMemory(index, text, "text",
                                 [role |-> role, conversationId |-> now],
                                 now, ownIds, embResp, insResp)
            IN  /\ calls' = Append(calls, Call("store", r.ok, text))
                /\ index' = r.index
                /\ IF r.ok
                   THEN /\ ownIds' = ownIds \cup {r.id}
                        /\ ChatAdvance(answer, context)
                   ELSE /\ ChatThrow(<<"store failed">>)
                        /\ UNCHANGED ownIds
    /\ UNCHANGED <<now, env, client, ragService, instances, req, context, url, transcript, answer,
                   frameState, lastCall>>

ChatStoreUser == ChatStore("chat_store_user", req.message, "user")

ChatComplete ==
    /\ pc = "chat_complete"
    /\ \E resp \in ChatResponses :
         LET messages == ChatMessages(SystemPrompt(req.useMemory, context),
                                      req.history, req.message)
             text     == ResponseText(resp, <<"No response">>)
         IN  /\ calls' = Append(calls, Call("complete", resp.ok, messages))
             /\ IF resp.ok
                THEN /\ answer' = text
                     /\ ChatAdvance(text, context)
                ELSE /\ ChatThrow(<<"AI request failed">>)
                     /\ UNCHANGED answer
    /\ UNCHANGED <<index, now, env, client, ragService, instances, req, context, ownIds, url,
                   transcript, frameState, lastCall>>

ChatStoreReply == ChatStore("chat_store_reply", answer, "assistant")

InitChat ==
    /\ InitCommon
    /\ env \in [hasCreds : BOOLEAN, hasPublicUrl : {TRUE}]

NextChat ==
    \/ ReceiveChat
    \/ ChatValidate
    \/ ChatRetrieve
    \/ ChatStoreUser
    \/ ChatComplete
    \/ ChatStoreReply

SpecChat == InitChat /\ [][NextChat]_vars

\* -------------------------------------------- ingestion: shared stages
IngestEndpoints == {"image", "audio", "video"}

\* the ingestion handlers only write to the index and share nothing else
\* between requests, so a behaviour of the ingestion specification follows
\* one request from its arrival to its response
ReceiveOnce(r) ==
    /\ pc = "idle"
    /\ Receive(r)

AssetUrl(prefix) == "https://r2.public/" \o prefix

UploadResponses == {"ok", "error"}

\* "if (publicUrl) { try { upload } catch { log } }" without the try/catch
UploadStageNoCatch(enabled, prefix, resp) ==
    IF ~enabled THEN [attempted |-> FALSE, ok |-> FALSE, threw |-> FALSE, url |-> Undefined]
    ELSE IF resp = "ok"
    THEN [attempted |-> TRUE, ok |-> TRUE, threw |-> FALSE, url |-> AssetUrl(prefix)]
    ELSE [attempted |-> TRUE, ok |-> FALSE, threw |-> TRUE, url |-> Undefined]

\* STEP 1 of every ingestion route
UploadStage(enabled, prefix, resp) ==
    IF ~enabled THEN [attempted |-> FALSE, ok |-> FALSE, threw |-> FALSE, url |-> Undefined]
    ELSE IF resp = "ok"
    THEN [attempted |-> TRUE, ok |-> TRUE, threw |-> FALSE, url |-> AssetUrl(prefix)]
    ELSE [attempted |-> TRUE, ok |-> FALSE, threw |-> FALSE, url |-> Undefined]

\* the upload step of a handler: on to the next stage, or to the outer catch
Upload(stage, next, enabled, prefix) ==
    /\ pc = stage
    /\ \E resp \in UploadResponses :
         LET u == UploadStage(enabled, prefix, resp)
         IN  /\ calls' = IF u.attempted
                         THEN Append(calls, Call("upload", u.ok, <<prefix>>))
                         ELSE calls
             /\ url' = u.url
             /\ IF u.threw
                THEN Throw500(<<"R2 upload failed">>)
                ELSE pc' = next /\ UNCHANGED response
    /\ IF enabled THEN Construct("r2") ELSE UNCHANGED instances
    /\ UNCHANGED <<index, now, env, client, ragService, req, context, ownIds, transcript,
                   answer, frameState, lastCall>>

\* answers of the chat model offered to the ingestion routes
IngestChatResponses == { r \in ChatResponses : r.resultResponse = <<>> }

\* answers of the embedding model offered to the ingestion routes
IngestEmbedResponses == { r \in EmbedResponses : r.resultData = <<>> }

\* "try { getRAGService(); await rag.storeMemory(...) } catch { log }":
\* the outcome of the memory-persistence stage
Persist(route, content, type, metadata, embResp, insResp) ==
    LET r == storeMemory(index, content, type, metadata, now, ownIds,
                         embResp, insResp)
    IN  /\ GetRAGService(route)
        /\ calls' = Append(calls, Call("store", r.ok, content))
        /\ index' = r.index
        /\ ownIds' = IF r.ok THEN ownIds \cup {r.id} ELSE ownIds

NoPersist == UNCHANGED <<ragService, instances, calls, index, ownIds>>

StoreFailed == \E i \in CallsOf("store") : ~calls[i].ok
StoreSucceeded == \E i \in CallsOf("store") : calls[i].ok
UploadFailed == \E i \in CallsOf("upload") : ~calls[i].ok

\* ------------------------------------------------------ image endpoint
ImageRequests ==
    { [NoRequest EXCEPT !.endpoint = "image", !.hasFile = f, !.question = q,
                        !.saveToMemory = s] :
        f \in BOOLEAN, q \in { <<>>, <<"what is this?">> }, s \in BOOLEAN }

ReceiveImage ==
    /\ \E r \in ImageRequests : ReceiveOnce(r)
    /\ pc' = "img_validate"

ImageValidate ==
    /\ pc = "img_validate"
    /\ IF ~req.hasFile \/ ~Truthy(req.question)
       THEN /\ response' = ErrorResponse(400, <<"Missing image or question">>)
            /\ pc' = "done"
       ELSE IF ~env.hasCreds
       THEN /\ response' = ErrorResponse(500, <<"Missing Cloudflare credentials">>)
            /\ pc' = "done"
       ELSE /\ pc' = "img_upload"
            /\ UNCHANGED response
    /\ UNCHANGED <<index, now, env, client, ragService, instances, req, calls, context, ownIds, url,
                   transcript, answer, frameState, lastCall>>

ImageUpload == Upload("img_upload", "img_analyze", env.hasPublicUrl, "images")

\* STEP 2-3: base64 conversion and analyzeImageWithUrl
ImageAnalyze ==
    /\ pc = "img_analyze"
    /\ \E resp \in IngestChatResponses :
         /\ calls' = Append(calls, Call("describeImage", resp.ok, req.question))
         /\ IF resp.ok
            THEN /\ answer' = ResponseText(resp, <<"No response">>)
                 /\ pc' = "img_store"
                 /\ UNCHANGED response
            ELSE /\ Throw500(<<"AI request failed">>)
                 /\ UNCHANGED answer
    /\ Construct("ai")
    /\ UNCHANGED <<index, now, env, client, ragService, req, context, ownIds, url,
                   transcript, frameState, lastCall>>

\* the memorySaved flag of the image response
ImageMemorySaved(saveToMemory, stored) == saveToMemory

\* STEP 4 and the response
ImageStore ==
    /\ pc = "img_store"
    /\ IF req.saveToMemory
       THEN \E embResp \in IngestEmbedResponses, insResp \in InsertResponses :
              Persist("image",
                      <<"Image Analysis - Q:">> \o req.question \o <<"A:">> \o answer,
                      "image",
                      [question |-> req.question, answer |-> answer,
                       image_url |-> url, image_name |-> "image.png",
                       image_type |-> "image/png", timestamp |-> now],
                      embResp, insResp)
       ELSE NoPersist
    /\ response' = Json([status |-> 200, response |-> answer,
                         memorySaved |-> ImageMemorySaved(req.saveToMemory,
                                              \E i \in 1..Len(calls') :
                                                  calls'[i].op = "store" /\ calls'[i].ok),
                         url |-> url])
    /\ pc' = "done"
    /\ UNCHANGED <<now, env, client, req, context, url, transcript, answer, frameState,
                   lastCall>>

\* ------------------------------------------------------ audio endpoint
\* audio/route.ts holds two POST handlers: variant 1 gates on the file size,
\* variant 2 always transcribes and classifies the upstream failure
AudioSizes == {1024 * 1024, maxAudioSize, maxAudioSize + 1}

AudioRequests ==
    { [NoRequest EXCEPT !.endpoint = "audio", !.variant = v, !.hasFile = f,
                        !.size = IF f THEN z ELSE 0, !.question = q,
                        !.saveToMemory = s] :
        v \in {1, 2}, f \in BOOLEAN, z \in AudioSizes,
        q \in { <<>>, <<"What is discussed?">> }, s \in BOOLEAN }

\* (size / 1024 / 1024).toFixed(2), in hundredths of a megabyte
FileSizeMB(size) == (size * 100 + 512 * 1024) \div (1024 * 1024)

\* answers of the transcription model: a non-success status with its status
\* text and body, or a success carrying the text (possibly none)
WhisperResponses ==
    { [ok |-> FALSE, statusText |-> "Payload Too Large", body |-> <<"request entity">>, text |-> <<>>],
      [ok |-> FALSE, statusText |-> "Bad Request", body |-> <<"audio", "too large">>, text |-> <<>>],
      [ok |-> FALSE, statusText |-> "Internal Server Error", body |-> <<"upstream">>, text |-> <<>>],
      [ok |-> TRUE, statusText |-> "OK", body |-> <<>>, text |-> <<>>],
      [ok |-> TRUE, statusText |-> "OK", body |-> <<>>, text |-> <<"hello", "world">>],
      [ok |-> TRUE, statusText |-> "OK", body |-> <<>>, text |-> <<"the", "build", "failed">>],
      [ok |-> TRUE, statusText |-> "OK", body |-> <<>>, text |-> <<"we", "skipped", "lunch">>],
      [ok |-> TRUE, statusText |-> "OK", body |-> <<>>, text |-> <<"file", "too large">>] }

\* CloudflareAI.transcribeAudio followed by the empty-text check of the route
transcribeAudio(resp) ==
    IF ~resp.ok
    THEN [ok |-> FALSE, text |-> <<>>,
          message |-> <<"Whisper request", "failed", ":", resp.statusText, "-">>
                      \o resp.body]
    ELSE IF ~Truthy(resp.text)
    THEN [ok |-> FALSE, text |-> <<>>,
          message |-> <<"Whisper returned empty transcription">>]
    ELSE [ok |-> TRUE, text |-> resp.text, message |-> <<>>]

SkipTranscript(size) ==
    <<"[Audio file", "uploaded to R2 successfully", ", but transcription was",
      "skipped", "because the file size", ToString(FileSizeMB(size)),
      "exceeds the 2MB limit. Please use a smaller audio file for transcription.]">>

SkipAnswer(size, audioUrl) ==
    <<"The audio file was", "uploaded to R2 successfully", "at:", audioUrl,
      "However, it's", "too large", "for automatic transcription",
      ToString(FileSizeMB(size)),
      "Please use an audio file smaller than 2MB for transcription.">>

FailedTranscript1 ==
    <<"Transcription", "failed",
      ". Please try a different audio format or smaller file.">>

TooLargeTranscript2 ==
    <<"Audio file is", "too large", "for Whisper API. The file was",
      "uploaded to R2 storage successfully",
      ", but transcription is not available. Please use a smaller file (under 2MB) or shorter recording for transcription.">>

FailedTranscript2(errorMessage) ==
    <<"Transcription", "failed", ":">> \o errorMessage
    \o <<". The audio file was", "uploaded successfully", "to R2 storage.">>

CannotAnswer1 ==
    <<"Cannot answer question because transcription was", "skipped", "or",
      "failed", ".">>

CannotAnswer2 ==
    <<"Cannot answer question because transcription", "failed",
      ". However, the audio file was", "uploaded to R2 storage successfully", ".">>

\* the transcript the catch block of each variant substitutes
FailurePlaceholder(variant, errorMessage) ==
    IF variant = 1 THEN FailedTranscript1
    ELSE IF Includes(errorMessage, "too large")
            \/ Includes(errorMessage, "Payload Too Large")
    THEN TooLargeTranscript2
    ELSE FailedTranscript2(errorMessage)

\* the words whose presence marks a transcript as unusable
MarkerWords(variant) == IF variant = 1 THEN {"failed", "skipped"}
                        ELSE {"failed", "too large"}

HasMarker(variant, text) == \E w \in MarkerWords(variant) : Includes(text, w)

ReceiveAudio ==
    /\ \E r \in AudioRequests : ReceiveOnce(r)
    /\ pc' = "aud_validate"

AudioValidate ==
    /\ pc = "aud_validate"
    /\ IF ~req.hasFile
       THEN /\ response' = ErrorResponse(400, <<"Missing audio file">>)
            /\ pc' = "done"
       ELSE IF ~env.hasCreds
       THEN /\ response' = ErrorResponse(500, <<"Missing Cloudflare credentials">>)
            /\ pc' = "done"
       ELSE /\ pc' = "aud_upload"
            /\ UNCHANGED response
    /\ UNCHANGED <<index, now, env, client, ragService, instances, req, calls, context, ownIds, url,
                   transcript, answer, frameState, lastCall>>

AudioUpload == Upload("aud_upload", "aud_transcribe", env.hasPublicUrl, "audio")

TranscriptionSkipped(variant, size) == variant = 1 /\ size > maxAudioSize

\* STEP 2-3: the size gate of variant 1, then transcription
AudioTranscribe ==
    /\ pc = "aud_transcribe"
    /\ IF TranscriptionSkipped(req.variant, req.size)
       THEN /\ transcript' = SkipTranscript(req.size)
            /\ answer' = IF Truthy(req.question)
                         THEN SkipAnswer(req.size, url) ELSE <<>>
            /\ pc' = "aud_store"
            /\ UNCHANGED calls
       ELSE \E resp \in WhisperResponses :
              LET t == transcribeAudio(resp)
              IN  /\ calls' = Append(calls, Call("transcribe", resp.ok, resp))
                  /\ transcript' = IF t.ok THEN t.text
                                   ELSE FailurePlaceholder(req.variant, t.message)
                  /\ pc' = "aud_answer"
                  /\ UNCHANGED answer
    /\ IF TranscriptionSkipped(req.variant, req.size)
       THEN UNCHANGED instances ELSE Construct("ai")
    /\ UNCHANGED <<index, now, env, client, ragService, req, context, ownIds, url,
                   frameState, response, lastCall>>

\* STEP 4: answer the question from the transcript
AudioAnswer ==
    /\ pc = "aud_answer"
    /\ IF Truthy(req.question) /\ Truthy(transcript)
          /\ ~HasMarker(req.variant, transcript)
       THEN \E resp \in IngestChatResponses :
              /\ calls' = Append(calls,
                                 Call("complete", resp.ok,
                                      <<"Transcript:">> \o transcript
                                      \o <<"Question:">> \o req.question))
              /\ answer' = IF resp.ok
                           THEN ResponseText(resp, <<"No answer generated">>)
                           ELSE <<"Failed to generate answer based on transcript">>
       ELSE /\ answer' = IF Truthy(req.question) /\ HasMarker(req.variant, transcript)
                         THEN (IF req.variant = 1 THEN CannotAnswer1 ELSE CannotAnswer2)
                         ELSE answer
            /\ UNCHANGED calls
    /\ pc' = "aud_store"
    /\ UNCHANGED <<index, now, env, client, ragService, instances, req, context, ownIds, url,
                   transcript, frameState, response, lastCall>>

AudioContent(variant, question, ans, text) ==
    IF Truthy(question)
    THEN <<"Audio Analysis - Q:">> \o question \o <<"A:">> \o ans
    ELSE IF variant = 1 THEN <<"Audio Transcription:">> \o text
    ELSE <<"Audio Upload:", "audio.mp3", "-">> \o text

\* the memorySaved flag of the audio response
AudioMemorySaved(saveToMemory, text, stored) == saveToMemory /\ Truthy(text)

\* STEP 5 and the response
AudioStore ==
    /\ pc = "aud_store"
    /\ IF req.saveToMemory /\ Truthy(transcript)
       THEN \E embResp \in IngestEmbedResponses, insResp \in InsertResponses :
              Persist("audio",
                      AudioContent(req.variant, req.question, answer, transcript),
                      "audio",
                      [transcript |-> transcript,
                       question |-> OrText(req.question, NoText),
                       answer |-> OrText(answer, NoText),
                       audio_url |-> url, audio_name |-> "audio.mp3",
                       audio_type |-> "audio/mpeg", audio_size |-> req.size,
                       timestamp |-> now],
                      embResp, insResp)
       ELSE NoPersist
    /\ response' = Json([status |-> 200,
                         transcript |-> OrText(transcript, <<"No transcription available">>),
                         answer |-> OrText(answer, NoText),
                         url |-> url,
                         memorySaved |-> AudioMemorySaved(req.saveToMemory, transcript,
                                              \E i \in 1..Len(calls') :
                                                  calls'[i].op = "store" /\ calls'[i].ok),
                         fileSizeMB |-> FileSizeMB(req.size),
                         transcriptionSkipped |->
                             TranscriptionSkipped(req.variant, req.size)])
    /\ pc' = "done"
    /\ UNCHANGED <<now, env, client, req, context, url, transcript, answer, frameState,
                   lastCall>>

\* ------------------------------------------------------ video endpoint
\* the frames form field: absent, not JSON, the JSON null, a JSON value that
\* is not an array, or an array of numFrames frames
FramesFields == {"absent", "unparsable", "null", "not_array", "array"}

VideoRequests ==
    { [NoRequest EXCEPT !.endpoint = "video", !.hasFile = f, !.framesField = ff,
                        !.numFrames = IF ff = "array" THEN n ELSE 0,
                        !.question = q, !.saveToMemory = s,
                        !.audioTranscript = t] :
        f \in BOOLEAN, ff \in FramesFields, n \in 0..MaxFrames,
        q \in { <<>>, <<"What happens?">> }, s \in BOOLEAN,
        t \in { <<>>, <<"spoken words">> } }

\* seconds between two submitted frames
FrameInterval == 5

\* frame.timestamp of the i-th submitted frame
FrameTimestamp(i) == (i - 1) * FrameInterval

Min(a, b) == IF a < b THEN a ELSE b

\* frames.length: every submitted frame is analysed
AnalysedFramesNoLimit(n) == n

\* frames.slice(0, 5).length
AnalysedFrames(n) == Min(n, FrameLimit)

ReceiveVideo ==
    /\ \E r \in VideoRequests : ReceiveOnce(r)
    /\ pc' = "vid_validate"

VideoValidate ==
    /\ pc = "vid_validate"
    /\ IF req.framesField = "unparsable"
       THEN Throw500(<<"Unexpected token">>)
       ELSE IF req.framesField \in {"absent", "null"} \/ ~Truthy(req.question)
       THEN /\ response' = ErrorResponse(400, <<"Missing frames or question">>)
            /\ pc' = "done"
       ELSE IF ~env.hasCreds
       THEN /\ response' = ErrorResponse(500, <<"Missing Cloudflare credentials">>)
            /\ pc' = "done"
       ELSE /\ pc' = "vid_upload"
            /\ UNCHANGED response
    /\ UNCHANGED <<index, now, env, client, ragService, instances, req, calls, context, ownIds, url,
                   transcript, answer, frameState, lastCall>>

VideoUpload ==
    Upload("vid_upload", "vid_start", req.hasFile /\ env.hasPublicUrl, "videos")

PendingFrame == [status |-> "pending", description |-> <<>>]

AllFramesOk(fs) == \A i \in 1..Len(fs) : fs[i].status = "ok"

\* STEP 2: frames.slice(0, 5).map(async ...) starts every describeImage call
VideoStartFrames ==
    /\ pc = "vid_start"
    /\ IF req.framesField = "not_array"
       THEN /\ Throw500(<<"frames.slice(...).map is not a function">>)
            /\ UNCHANGED frameState
       ELSE /\ frameState' = [i \in 1..AnalysedFrames(req.numFrames) |-> PendingFrame]
            /\ pc' = IF AnalysedFrames(req.numFrames) = 0 THEN "vid_answer"
                     ELSE "vid_frames"
            /\ UNCHANGED response
    /\ Construct("ai")
    /\ UNCHANGED <<index, now, env, client, ragService, req, calls, context, ownIds, url,
                   transcript, answer, lastCall>>

\* one describeImage call settles; Promise.all rejects with the first failure
\* and resolves when the last call has succeeded
VideoFrameDone(i) ==
    /\ i \in 1..Len(frameState)
    /\ frameState[i].status = "pending"
    /\ \E resp \in IngestChatResponses :
         /\ calls' = Append(calls, Call("describeImage", resp.ok, <<ToString(i)>>))
         /\ frameState' = [frameState EXCEPT ![i] =
                IF resp.ok
                THEN [status |-> "ok",
                      description |-> ResponseText(resp, <<"No description">>)]
                ELSE [status |-> "failed", description |-> <<>>]]
         /\ IF pc # "vid_frames" THEN UNCHANGED <<pc, response>>
            ELSE IF ~resp.ok THEN Throw500(<<"AI request failed">>)
            ELSE /\ pc' = IF AllFramesOk(frameState') THEN "vid_answer" ELSE pc
                 /\ UNCHANGED response
    /\ UNCHANGED <<index, now, env, client, ragService, instances, req, context, ownIds, url,
                   transcript, answer, lastCall>>

VideoFrames == \E i \in 1..FrameLimit : VideoFrameDone(i)

\* the resolved values in the order in which the calls completed
FrameAnalysesAsCompleted(fs) ==
    LET finished == SelectSeq(calls, LAMBDA c : c.op = "describeImage")
    IN  [k \in 1..Len(fs) |->
            LET i == CHOOSE j \in 1..Len(fs) : finished[k].arg = <<ToString(j)>>
            IN  [timestamp |-> FrameTimestamp(i),
                 description |-> fs[i].description]]

\* frameAnalyses: the resolved values of Promise.all, in the order of the frames
FrameAnalyses(fs) ==
    [i \in 1..Len(fs) |-> [timestamp |-> FrameTimestamp(i),
                           description |-> fs[i].description]]

RECURSIVE FrameLines(_, _)
FrameLines(fa, i) ==
    IF i > Len(fa) THEN <<>>
    ELSE <<ToString(fa[i].timestamp), "s:">> \o fa[i].description
         \o FrameLines(fa, i + 1)

\* STEP 3: the context block
VideoContext(fa, audioTranscript) ==
    <<"Video Analysis:">> \o FrameLines(fa, 1) \o <<"Audio Transcript:">>
    \o OrText(audioTranscript, <<"No audio available">>)

\* STEP 4: answer the question
VideoAnswer ==
    /\ pc = "vid_answer"
    /\ \E resp \in IngestChatResponses :
         /\ calls' = Append(calls,
                Call("complete", resp.ok,
                     VideoContext(FrameAnalyses(frameState), req.audioTranscript)
                     \o <<"Question:">> \o req.question))
         /\ IF resp.ok
            THEN /\ answer' = ResponseText(resp, <<"No answer generated">>)
                 /\ pc' = "vid_store"
                 /\ UNCHANGED response
            ELSE /\ Throw500(<<"AI request failed">>)
                 /\ UNCHANGED answer
    /\ UNCHANGED <<index, now, env, client, ragService, instances, req, context, ownIds, url,
                   transcript, frameState, lastCall>>

\* STEP 5 and the response
VideoStore ==
    /\ pc = "vid_store"
    /\ \E embResp \in IngestEmbedResponses, insResp \in InsertResponses :
         /\ Persist("video",
                    <<"Video Analysis - Q:">> \o req.question \o <<"A:">> \o answer,
                    "video",
                    [question |-> req.question, answer |-> answer,
                     video_url |-> url,
                     video_name |-> IF req.hasFile THEN "video.mp4" ELSE Undefined,
                     frameCount |-> req.numFrames,
                     hasAudio |-> Truthy(req.audioTranscript),
                     timestamp |-> now],
                    embResp, insResp)
         /\ IF calls'[Len(calls')].ok
            THEN /\ response' = Json([status |-> 200, answer |-> answer,
                                      frameAnalyses |-> FrameAnalyses(frameState),
                                      audioTranscript |-> req.audioTranscript,
                                      url |-> url])
                 /\ pc' = "done"
            ELSE Throw500(<<"store failed">>)
    /\ UNCHANGED <<now, env, client, req, context, url, transcript, answer, frameState,
                   lastCall>>

\* ------------------------------------------- the ingestion specification
InitIngest ==
    /\ InitCommon
    /\ env \in [hasCreds : BOOLEAN, hasPublicUrl : BOOLEAN]

NextIngest ==
    \/ ReceiveImage \/ ImageValidate \/ ImageUpload \/ ImageAnalyze \/ ImageStore
    \/ ReceiveAudio \/ AudioValidate \/ AudioUpload \/ AudioTranscribe
    \/ AudioAnswer \/ AudioStore
    \/ ReceiveVideo \/ VideoValidate \/ VideoUpload \/ VideoStartFrames
    \/ VideoFrames \/ VideoAnswer \/ VideoStore

SpecIngest == InitIngest /\ [][NextIngest]_vars

\* ------------------------- the image route over a sequence of requests
\* a further image request arrives in the same process
ReceiveImageAgain ==
    /\ instances.ai < MaxInstances
    /\ \E r \in { q \in ImageRequests : q.hasFile /\ Truthy(q.question) } :
         Receive(r)
    /\ pc' = "img_validate"

InitProcess ==
    /\ InitCommon
    /\ env = [hasCreds |-> TRUE, hasPublicUrl |-> TRUE]

NextProcess ==
    \/ ReceiveImageAgain \/ ImageValidate \/ ImageUpload \/ ImageAnalyze
    \/ ImageStore

SpecProcess == InitProcess /\ [][NextProcess]_vars

\* ------------------------------- the video route on a full-length video
\* the client submits one frame per FrameInterval seconds of video; a video
\* long enough yields FrameLimit frames or more, all described concurrently;
\* a shorter one yields fewer
FullVideoRequests ==
    { [NoRequest EXCEPT !.endpoint = "video", !.framesField = "array",
                        !.numFrames = n, !.question = <<"What happens?">>,
                        !.audioTranscript = <<"spoken words">>] :
        n \in 1..MaxSubmitted }

ReceiveFullVideo ==
    /\ \E r \in FullVideoRequests : ReceiveOnce(r)
    /\ pc' = "vid_validate"

InitVideo ==
    /\ InitCommon
    /\ env = [hasCreds |-> TRUE, hasPublicUrl |-> FALSE]

NextVideo ==
    \/ ReceiveFullVideo \/ VideoValidate \/ VideoUpload \/ VideoStartFrames
    \/ VideoFrames \/ VideoAnswer \/ VideoStore

SpecVideo == InitVideo /\ [][NextVideo]_vars

\* ------------------------------------------- the VideoUpload component
\* data.<name> of a parsed JSON body: undefined when the body has no such key
JsonField(json, name) == IF name \in DOMAIN json THEN json[name] ELSE NoText

\* the key of the audio response that handleAnalyze reads
TranscriptField == "text"

\* response.ok
ResponseOk(resp) == resp.status >= 200 /\ resp.status <= 299

\* the POST /api/video request of handleAnalyze
ClientVideoRequest(numFrames, audioTranscript) ==
    [NoRequest EXCEPT !.endpoint = "video", !.hasFile = TRUE,
                      !.framesField = "array",
                      !.numFrames = Min(numFrames, FrameLimit),
                      !.audioTranscript = OrText(audioTranscript, <<>>),
                      !.question = <<"What happens?">>]

\* the POST /api/audio request of handleAnalyze: the audio blob alone
ClientAudioRequest(variant, size) ==
    [NoRequest EXCEPT !.endpoint = "audio", !.variant = variant,
                      !.hasFile = TRUE, !.size = size]

\* handleAnalyze up to its first request: frames extracted, audio extracted
\* (or not), then the audio request, or the video request at once
HandleAnalyze ==
    /\ client.op = "none"
    /\ pc = "idle"
    /\ \E n \in 1..MaxFrames, extracted \in BOOLEAN, v \in {1, 2},
          z \in AudioSizes :
         /\ client' = [op |-> "handleAnalyze",
                       stage |-> IF extracted THEN "transcribing" ELSE "analyzing",
                       frameCount |-> n, audioExtracted |-> extracted,
                       audioOk |-> FALSE, transcriptData |-> NoResponse,
                       audioTranscript |-> <<>>, answer |-> <<>>]
         /\ IF extracted
            THEN Accept(ClientAudioRequest(v, z)) /\ pc' = "aud_validate"
            ELSE Accept(ClientVideoRequest(n, <<>>)) /\ pc' = "vid_validate"

\* the audio response arrives: read the transcript, submit the video request
AudioResponded ==
    /\ client.op = "handleAnalyze"
    /\ client.stage = "transcribing"
    /\ pc = "done"
    /\ LET audioTranscript ==
               IF ResponseOk(response)
               THEN OrText(JsonField(response, TranscriptField), <<>>)
               ELSE <<>>
       IN  /\ client' = [client EXCEPT !.stage = "analyzing",
                                       !.audioOk = ResponseOk(response),
                                       !.transcriptData = response,
                                       !.audioTranscript = audioTranscript]
           /\ Accept(ClientVideoRequest(client.frameCount, audioTranscript))
           /\ pc' = "vid_validate"

\* the video response arrives: show the answer
VideoResponded ==
    /\ client.op = "handleAnalyze"
    /\ client.stage = "analyzing"
    /\ pc = "done"
    /\ client' = [client EXCEPT
           !.stage = "shown",
           !.answer = IF ResponseOk(response)
                      THEN OrText(response.answer, <<"No answer generated">>)
                      ELSE <<"Failed to analyze video. Please try again.">>]
    /\ UNCHANGED <<index, now, env, ragService, instances, reqVars, lastCall>>

InitClient ==
    /\ InitCommon
    /\ env \in [hasCreds : BOOLEAN, hasPublicUrl : BOOLEAN]

NextClient ==
    \/ HandleAnalyze \/ AudioResponded \/ VideoResponded
    \/ AudioValidate \/ AudioUpload \/ AudioTranscribe \/ AudioAnswer
    \/ AudioStore
    \/ VideoValidate \/ VideoUpload \/ VideoStartFrames \/ VideoFrames
    \/ VideoAnswer \/ VideoStore

SpecClient == InitClient /\ [][NextClient]_vars

\* ------------------------------------------ VideoProcessor.extractFrames
\* times are kept in units of 1 / maxFrames of a second, which makes
\* duration / maxFrames an integer
\* Math.max(intervalSeconds, duration / maxFrames), for intervalSeconds in
\* seconds and duration in units
FrameStep(intervalSeconds, duration, maxFrames) ==
    IF intervalSeconds * maxFrames > duration \div maxFrames
    THEN intervalSeconds * maxFrames
    ELSE duration \div maxFrames

\* the capture loop ends when the duration is passed, whatever was captured
CaptureDoneTimeOnly(currentTime, duration, captured, maxFrames) ==
    currentTime > duration

\* currentTime > duration || frames.length >= maxFrames
CaptureDone(currentTime, duration, captured, maxFrames) ==
    currentTime > duration \/ captured >= maxFrames

\* captureFrame(): resolve with the frames, or seek to the next position
CaptureFrame(c) ==
    IF CaptureDone(c.currentTime, c.duration, Len(c.frames), c.maxFrames)
    THEN [c EXCEPT !.stage = "resolved"]
    ELSE [c EXCEPT !.stage = "seeking",
                   !.seekTo = Min(c.currentTime, c.duration)]

\* extractFrames(videoFile, intervalSeconds, maxFrames) has been called and
\* waits for the metadata of a video of the given duration
ExtractCalls ==
    { [op |-> "extractFrames", stage |-> "loading", duration |-> d * m,
       frameInterval |-> 0, maxFrames |-> m, intervalSeconds |-> s,
       currentTime |-> 0, seekTo |-> 0, frames |-> <<>>] :
        d \in 1..MaxDuration, s \in 1..MaxInterval, m \in 1..MaxExtract }

\* video.onloadedmetadata
LoadedMetadata ==
    /\ client.op = "extractFrames"
    /\ client.stage = "loading"
    /\ client' = CaptureFrame(
           [client EXCEPT !.currentTime = 0,
                          !.frameInterval = FrameStep(client.intervalSeconds,
                                                      client.duration,
                                                      client.maxFrames)])
    /\ UNCHANGED <<index, now, env, ragService, instances, reqVars, lastCall>>

\* video.onerror while the video loads: the promise is rejected
VideoError ==
    /\ client.op = "extractFrames"
    /\ client.stage = "loading"
    /\ client' = [client EXCEPT !.stage = "rejected"]
    /\ UNCHANGED <<index, now, env, ragService, instances, reqVars, lastCall>>

\* video.onseeked: capture the frame, advance, captureFrame()
Seeked ==
    /\ client.op = "extractFrames"
    /\ client.stage = "seeking"
    /\ client' = CaptureFrame(
           [client EXCEPT !.frames = Append(@, [timestamp |-> client.currentTime,
                                                position |-> client.seekTo]),
                          !.currentTime = @ + client.frameInterval])
    /\ UNCHANGED <<index, now, env, ragService, instances, reqVars, lastCall>>

InitExtract ==
    /\ index = <<>>
    /\ now = 0
    /\ ragService = {}
    /\ req = NoRequest
    /\ pc = "idle"
    /\ calls = <<>>
    /\ context = NoContext
    /\ ownIds = {}
    /\ url = Undefined
    /\ transcript = <<>>
    /\ answer = <<>>
    /\ frameState = <<>>
    /\ response = NoResponse
    /\ lastCall = NoCall
    /\ instances = NoInstances
    /\ env = [hasCreds |-> TRUE, hasPublicUrl |-> FALSE]
    /\ client \in ExtractCalls

NextExtract == LoadedMetadata \/ VideoError \/ Seeked

SpecExtract == InitExtract /\ [][NextExtract]_vars

\* every seek the browser starts completes
SpecExtractLive == SpecExtract /\ WF_vars(Seeked)

\* ----------------------------------------------------- memory endpoint
\* the JSON body of POST /api/memory: content, type and metadata are passed
\* on as the client sent them
MemoryRequests ==
    { [NoRequest EXCEPT !.endpoint = "memory", !.content = c, !.type = t,
                        !.metadata = m] :
        c \in { <<>>, <<"remember this">> },
        t \in { Undefined, "text" },
        m \in { EmptyMeta, [timestamp |-> 0],
                [source |-> "client", content |-> <<"something else">>,
                 type |-> "image"] } }

ReceiveMemory ==
    /\ \E r \in MemoryRequests : Receive(r)
    /\ pc' = "mem_validate"

\* memory/route.ts POST up to the call of storeMemory
MemoryValidate ==
    /\ pc = "mem_validate"
    /\ IF ~Truthy(req.content) \/ req.type = Undefined
       THEN /\ response' = ErrorResponse(400, <<"Content and type are required">>)
            /\ pc' = "done"
            /\ UNCHANGED <<ragService, instances>>
       ELSE IF ~CanGetRAGService("memory")
       THEN /\ response' = ErrorResponse(500, <<"Missing Cloudflare credentials">>)
            /\ pc' = "done"
            /\ UNCHANGED <<ragService, instances>>
       ELSE /\ GetRAGService("memory")
            /\ pc' = "mem_store"
            /\ UNCHANGED response
    /\ UNCHANGED <<index, now, env, client, req, calls, context, ownIds, url, transcript,
                   answer, frameState, lastCall>>

\* await rag.storeMemory(content, type, metadata) and the response
MemoryStore ==
    /\ pc = "mem_store"
    /\ \E embResp \in IngestEmbedResponses, insResp \in InsertResponses :
         /\ insResp = "ok" => Len(index) < MaxSvcRecords
         /\ LET r == storeMemory(index, req.content, req.type, req.metadata,
                                 now, ownIds, embResp, insResp)
            IN  /\ calls' = Append(calls, Call("store", r.ok, req.content))
                /\ index' = r.index
                /\ IF r.ok
                   THEN /\ ownIds' = ownIds \cup {r.id}
                        /\ response' = Json([status |-> 200, id |-> r.id,
                                             success |-> TRUE])
                        /\ pc' = "done"
                   ELSE /\ Throw500(<<"store failed">>)
                        /\ UNCHANGED ownIds
    /\ UNCHANGED <<now, env, client, ragService, instances, req, context, url, transcript, answer,
                   frameState, lastCall>>

\* DELETE /api/memory
ClearRequest == [NoRequest EXCEPT !.endpoint = "memory_clear"]

ReceiveClear ==
    /\ Receive(ClearRequest)
    /\ pc' = "mem_delete"

ClearMessage ==
    <<"Memory clearing not fully supported. Please recreate the index via wrangler.">>

\* a DELETE handler that deletes every record by id
MemoryDeleteAll ==
    /\ pc = "mem_delete"
    /\ calls' = Append(calls, Call("deleteById", TRUE, <<>>))
    /\ index' = <<>>
    /\ response' = Json([status |-> 200, success |-> TRUE, message |-> ClearMessage])
    /\ pc' = "done"
    /\ UNCHANGED <<now, env, client, ragService, instances, req, context, ownIds,
                   url, transcript, answer, frameState, lastCall>>

MemoryDelete ==
    /\ pc = "mem_delete"
    /\ response' = Json([status |-> 200, success |-> TRUE, message |-> ClearMessage])
    /\ pc' = "done"
    /\ UNCHANGED <<index, now, env, client, ragService, instances, req, calls,
                   context, ownIds, url, transcript, answer, frameState, lastCall>>

\* ------------------------------------------------------ stats endpoint
StatsRequest == [NoRequest EXCEPT !.endpoint = "stats"]

IndexInfoResponses == {"ok", "error"}

\* VectorizeService.getIndexInfo through RAGService.getStats
getStats(resp) == [ok |-> resp = "ok"]

\* GET /api/stats
StatsGet ==
    /\ pc = "stats_get"
    /\ IF ~CanGetRAGService("stats")
       THEN /\ response' = ErrorResponse(500, <<"Missing Cloudflare credentials">>)
            /\ pc' = "done"
            /\ UNCHANGED <<ragService, instances, calls>>
       ELSE \E resp \in IndexInfoResponses :
              /\ GetRAGService("stats")
              /\ calls' = Append(calls, Call("indexInfo", getStats(resp).ok, <<>>))
              /\ IF getStats(resp).ok
                 THEN /\ response' = Json([status |-> 200, success |-> TRUE])
                      /\ pc' = "done"
                 ELSE Throw500(<<"Vectorize info failed">>)
    /\ UNCHANGED <<index, now, env, client, req, context, ownIds, url, transcript,
                   answer, frameState, lastCall>>

\* ------------------------- the memory endpoint under a running clock
InitMemoryApi ==
    /\ InitCommon
    /\ env = [hasCreds |-> TRUE, hasPublicUrl |-> TRUE]

NextMemoryApi ==
    \/ ReceiveMemory \/ MemoryValidate \/ MemoryStore \/ Tick
    \/ ReceiveClear \/ MemoryDelete

SpecMemoryApi == InitMemoryApi /\ [][NextMemoryApi]_vars

\* --------------------------------- every endpoint, one request at a time
ReceiveChatOnce ==
    /\ \E r \in ChatRequests : ReceiveOnce(r)
    /\ pc' = "chat_validate"

ReceiveMemoryOnce ==
    /\ \E r \in MemoryRequests : ReceiveOnce(r)
    /\ pc' = "mem_validate"

ReceiveStatsOnce ==
    /\ ReceiveOnce(StatsRequest)
    /\ pc' = "stats_get"

ApiEndpoints == IngestEndpoints \cup {"chat", "memory", "stats"}

NextApi ==
    \/ NextIngest
    \/ ReceiveChatOnce \/ ChatValidate \/ ChatRetrieve \/ ChatStoreUser
    \/ ChatComplete \/ ChatStoreReply
    \/ ReceiveMemoryOnce \/ MemoryValidate \/ MemoryStore
    \/ ReceiveStatsOnce \/ StatsGet

SpecApi == InitIngest /\ [][NextApi]_vars

\* ------------------------------------------------- claims on the chat turn
IsChatTurn == req.endpoint = "chat" /\ req.useMemory

IsContextPrompt(p) == Len(p) >= Len(ContextHeader) /\ p[1] = ContextHeader[1]

\* C1: in a chat turn with useMemory the retrieve for the user message
\* completes before the store of that message begins, so the context of a
\* turn never contains the record created for the turn's own user message.
C1_TurnNeverRetrievesItself ==
    IsChatTurn =>
        /\ \A i \in CallsOf("store") : \E j \in CallsOf("retrieve") : j < i
        /\ \A k \in 1..Len(context.relevant_memories) :
               context.relevant_memories[k].id \notin ownIds
        /\ \A k \in 1..Len(response.context.relevant_memories) :
               response.context.relevant_memories[k].id \notin ownIds

C1_Witness ==
    /\ IsChatTurn
    /\ pc = "done"
    /\ response.status = 200
    /\ Len(response.context.relevant_memories) > 0
    /\ ownIds # {}

\* C2: a chat turn that returns successfully has, with useMemory, invoked
\* retrieve once, before complete, and store exactly twice, once with the user
\* message and once with the response text; without useMemory it has invoked
\* neither retrieve nor store.
C2_ChatCallSequence ==
    (req.endpoint = "chat" /\ pc = "done" /\ response.status = 200) =>
        IF req.useMemory
        THEN /\ Cardinality(CallsOf("retrieve")) = 1
             /\ Cardinality(CallsOf("complete")) = 1
             /\ \A i \in CallsOf("retrieve") : \A j \in CallsOf("complete") : i < j
             /\ Cardinality(CallsOf("store")) = 2
             /\ \E i \in CallsOf("store") : calls[i].arg = req.message
             /\ \E i \in CallsOf("store") : calls[i].arg = response.response
        ELSE /\ CallsOf("retrieve") = {}
             /\ CallsOf("store") = {}

C2_Witness ==
    /\ IsChatTurn
    /\ pc = "done"
    /\ response.status = 200
    /\ Cardinality(CallsOf("store")) = 2

\* C3: chatWithContext builds the context-embedding system prompt iff
\* useMemory is true and at least one memory was retrieved; otherwise it uses
\* the plain system prompt, and in both cases a response is still produced.
C3_ContextPromptIffMemories ==
    req.endpoint = "chat" =>
        /\ \A i \in CallsOf("complete") :
               /\ IsContextPrompt(calls[i].arg[1].content)
                    <=> (req.useMemory /\ Len(context.relevant_memories) > 0)
               /\ ~IsContextPrompt(calls[i].arg[1].content)
                    => calls[i].arg[1].content = PlainPrompt
        /\ (pc = "done" /\ CallsOf("complete") # {}
                /\ (\A i \in CallsOf("complete") \cup CallsOf("store") : calls[i].ok))
             => (response.status = 200 /\ Truthy(response.response))

C3_Witness ==
    /\ IsChatTurn
    /\ pc = "done"
    /\ response.status = 200
    /\ context.defined
    /\ context.relevant_memories = <<>>
    /\ index # <<>>
    /\ \E i \in CallsOf("complete") : calls[i].arg[1].content = PlainPrompt

\* ------------------------------------------- claims on the Memory Service
NonIncreasing(ms) == \A i \in 1..(Len(ms) - 1) : ms[i].score >= ms[i + 1].score

\* C4: for every topK >= 0, topK = 0 included, retrieve returns at most topK
\* matches, in non-increasing score order.
C4_AtMostTopKSorted ==
    (lastCall.op = "retrieve" /\ ~lastCall.threw) =>
        /\ Len(lastCall.value.relevant_memories) <= lastCall.limit
        /\ NonIncreasing(lastCall.value.relevant_memories)

\* C5: when the index answers a query successfully with no matches, or with
\* no matches field at all, retrieve returns an empty context and does not
\* throw.
C5_NoMatchesIsEmptyContext ==
    (/\ lastCall.op = "retrieve"
     /\ generateEmbedding(lastCall.emb).ok
     /\ \/ lastCall.up \in {"no_result", "no_matches"}
        \/ lastCall.up = "matches" /\ lastCall.before = <<>>)
    => /\ ~lastCall.threw
       /\ lastCall.value.defined
       /\ lastCall.value.relevant_memories = <<>>

C5_Witness ==
    /\ lastCall.op = "retrieve"
    /\ generateEmbedding(lastCall.emb).ok
    /\ lastCall.up = "no_matches"
    /\ index # <<>>
    /\ ~lastCall.threw
    /\ lastCall.value.relevant_memories = <<>>

\* C6: store fails with an error, and inserts no record, whenever its text is
\* empty or the embedding step yields no vector (an upstream success that
\* carries no embedding data included).
C6_StoreRejectsEmptyTextOrNoVector ==
    (/\ lastCall.op = "store"
     /\ \/ lastCall.text = <<>>
        \/ ~generateEmbedding(lastCall.emb).ok
        \/ generateEmbedding(lastCall.emb).value = EmptyVec)
    => /\ lastCall.threw
       /\ index = lastCall.before

\* ---------------------------------------- claims on the ingestion routes
IsIngest == req.endpoint \in IngestEndpoints

Answered == pc = "done" /\ response.status # 0

\* C7: in the image and audio pipelines, when saveToMemory is true and the
\* store call fails, the request still returns its primary answer and the
\* memorySaved flag is false; memorySaved is true only if the store call
\* succeeded.
C7_MemorySavedReflectsStore ==
    (req.endpoint \in {"image", "audio"} /\ Answered) =>
        /\ (req.saveToMemory /\ StoreFailed) =>
               (response.status = 200 /\ ~response.memorySaved)
        /\ response.memorySaved => StoreSucceeded

\* the stage a handler enters when it leaves its upload stage
AfterUpload(stage) ==
    IF stage = "img_upload" THEN "img_analyze"
    ELSE IF stage = "aud_upload" THEN "aud_transcribe"
    ELSE "vid_start"

UploadStages == {"img_upload", "aud_upload", "vid_upload"}

\* C8: in every ingestion pipeline a failure of the object upload never
\* aborts the request: the handler leaves the upload stage for the same next
\* stage, with no response written, whether the upload succeeded or failed,
\* and after a failed upload the asset URL is absent, in the handler and in
\* the response.
LeavesUploadForNextStage ==
    pc \in UploadStages => (pc' = AfterUpload(pc) /\ response' = NoResponse)

NoUrlAfterFailedUpload ==
    (IsIngest /\ UploadFailed) => (url = Undefined /\ response.url = Undefined)

C8_UploadNeverAborts ==
    [][LeavesUploadForNextStage]_vars /\ []NoUrlAfterFailedUpload

C8_Witness ==
    /\ req.endpoint = "video"
    /\ UploadFailed
    /\ Answered
    /\ response.status = 200
    /\ response.url = Undefined
    /\ Len(response.frameAnalyses) = 2
    /\ StoreSucceeded

\* C9: in every ingestion pipeline a failure of the memory-persistence stage
\* never turns the request into an error response: once the model-invocation
\* stage has succeeded the request returns its success result whether or not
\* store fails.
C9_StoreFailureIsNotAnError ==
    (IsIngest /\ Answered /\ StoreFailed) => response.status = 200

\* C10: in every ingestion pipeline store is invoked only when the request's
\* saveToMemory flag is true; with saveToMemory false or absent the request
\* creates no memory record.
C10_StoreOnlyWhenSaveToMemory ==
    (IsIngest /\ ~req.saveToMemory) =>
        /\ CallsOf("store") = {}
        /\ ownIds = {}
        /\ index = <<>>

\* ------------------------------------------- claims on the audio route
IsAudio == req.endpoint = "audio"

AudioAnswered == IsAudio /\ Answered /\ response.status = 200

Transcribed == CallsOf("transcribe") # {}

\* C11: an audio asset whose size equals the threshold is transcribed
\* (transcribe is invoked, transcriptionSkipped is false); an asset one byte
\* larger is skipped (transcribe is not invoked, the skip placeholder is the
\* transcript, transcriptionSkipped is true).
C11_SizeGateBoundary ==
    AudioAnswered =>
        /\ req.size = maxAudioSize =>
               (Transcribed /\ ~response.transcriptionSkipped)
        /\ req.size = maxAudioSize + 1 =>
               /\ ~Transcribed
               /\ response.transcriptionSkipped
               /\ response.transcript = SkipTranscript(req.size)

\* the handler has left its upload stage
PastAudioUpload == pc \in {"aud_transcribe", "aud_answer", "aud_store", "done"}

\* C12: for every audio request whose size exceeds the threshold the
\* transcription capability is never invoked, the upload is still attempted
\* (when an upload target is configured), and when a question is present the
\* answer is non-empty text explaining the skip.
C12_OversizeNeverTranscribed ==
    (IsAudio /\ req.hasFile /\ req.size > maxAudioSize) =>
        /\ ~Transcribed
        /\ (PastAudioUpload /\ env.hasCreds /\ env.hasPublicUrl)
             => CallsOf("upload") # {}
        /\ (AudioAnswered /\ Truthy(req.question))
             => response.answer = SkipAnswer(req.size, response.url)

\* the transcription call of the request failed upstream with this status text
TranscribeFailedWith(statusText) ==
    \E i \in CallsOf("transcribe") :
        ~calls[i].ok /\ calls[i].arg.statusText = statusText

\* the transcription call of the request failed, upstream or by returning
\* no text
TranscribeFailed ==
    \E i \in CallsOf("transcribe") : ~transcribeAudio(calls[i].arg).ok

\* the generic failure placeholder of either handler
IsGenericPlaceholder(text) ==
    \/ text = FailedTranscript1
    \/ \E i \in CallsOf("transcribe") :
           text = FailedTranscript2(transcribeAudio(calls[i].arg).message)

\* C13: when transcription is attempted and fails, the transcript is the
\* "too large" placeholder if the upstream failure is size-class (413 Payload
\* Too Large) and the generic failure placeholder for any other failure; the
\* skip, too-large and generic placeholders are pairwise different texts.
C13_FailurePlaceholders ==
    (IsAudio /\ TranscribeFailed) =>
        /\ TranscribeFailedWith("Payload Too Large")
             => transcript = TooLargeTranscript2
        /\ (TranscribeFailedWith("Internal Server Error")
              \/ \E i \in CallsOf("transcribe") : calls[i].ok)
             => (IsGenericPlaceholder(transcript) /\ transcript # TooLargeTranscript2)
        /\ SkipTranscript(req.size) # TooLargeTranscript2
        /\ ~IsGenericPlaceholder(SkipTranscript(req.size))
        /\ ~IsGenericPlaceholder(TooLargeTranscript2)

\* transcription returned a transcript and the handler holds it
RealTranscript ==
    \E i \in CallsOf("transcribe") :
        /\ transcribeAudio(calls[i].arg).ok
        /\ transcript = calls[i].arg.text

\* C14: in the audio pipeline complete is invoked if and only if a question
\* is present and the transcript is a real transcript returned by
\* transcription: a real transcript is never classified as unusable, whatever
\* words it contains, and a placeholder is never classified as usable.
C14_CompleteIffRealTranscript ==
    (IsAudio /\ pc \in {"aud_store", "done"} /\ req.hasFile /\ env.hasCreds) =>
        (CallsOf("complete") # {} <=> (Truthy(req.question) /\ RealTranscript))

\* ---------------------------- claims on the failure of the primary model
\* the primary model call of the request (transcribe for audio, describeImage
\* for image and for video frames) failed upstream
PrimaryCallFailed ==
    \E i \in CallsOf("transcribe") \cup CallsOf("describeImage") : ~calls[i].ok

\* the text the response carries in place of the primary result
PrimaryText(r) ==
    IF req.endpoint = "audio" THEN r.transcript
    ELSE IF req.endpoint = "image" THEN r.response
    ELSE r.answer

\* C15: when the primary model call of an ingestion pipeline fails upstream,
\* the request still completes with a success response whose body carries
\* placeholder or explanatory text, not with an error response.
C15_PrimaryFailureDegrades ==
    (IsIngest /\ Answered /\ PrimaryCallFailed) =>
        /\ response.status = 200
        /\ Truthy(PrimaryText(response))

\* ------------------------------------------- claims on the video route
IsVideo == req.endpoint = "video"

FailedFrames == { i \in 1..Len(frameState) : frameState[i].status = "failed" }

\* no call of the request other than a describeImage call has failed
OnlyFramesFailed ==
    \A i \in 1..Len(calls) : calls[i].op # "describeImage" => calls[i].ok

\* C16: for a video request with 5 frames in which exactly one describeImage
\* call fails, the pipeline returns 5 frameAnalyses entries, the failed one
\* carrying the "No description" placeholder, and still issues the final
\* complete call and returns an answer.
C16_OneFailedFrameOfFive ==
    (/\ IsVideo /\ Answered
     /\ Len(frameState) = FrameLimit
     /\ Cardinality(FailedFrames) = 1
     /\ OnlyFramesFailed)
    => /\ response.status = 200
       /\ Len(response.frameAnalyses) = FrameLimit
       /\ \A i \in FailedFrames :
              response.frameAnalyses[i].description = <<"No description">>
       /\ CallsOf("complete") # {}
       /\ Truthy(response.answer)

\* ----------------------------------- claims on validation and credentials
\* the request lacks an input its endpoint requires
MissingInput ==
    \/ req.endpoint = "chat" /\ ~Truthy(req.message)
    \/ req.endpoint = "image" /\ (~req.hasFile \/ ~Truthy(req.question))
    \/ req.endpoint = "video"
         /\ (req.framesField \in {"absent", "null", "unparsable"}
               \/ ~Truthy(req.question))
    \/ req.endpoint = "audio" /\ ~req.hasFile
    \/ req.endpoint = "memory" /\ (~Truthy(req.content) \/ req.type = Undefined)

\* C17: in every endpoint a request that lacks a required input (message;
\* image or question; frames or question, an unparsable frames field
\* included; audio; content or type) gets a 400 response, and no collaborator
\* is invoked for that request.
C17_MissingInputIs400 ==
    (req.endpoint \in ApiEndpoints /\ MissingInput) =>
        /\ calls = <<>>
        /\ index = <<>>
        /\ Answered => response.status = 400

\* C18: when the inference / vector-index credentials are absent, every
\* otherwise valid request to chat, image, video, audio, memory store or stats
\* ends in a 500 response and no upstream call (upload, inference, vector
\* store) is made for it.
C18_NoCredentialsIs500 ==
    (req.endpoint \in ApiEndpoints /\ ~env.hasCreds /\ ~MissingInput) =>
        /\ calls = <<>>
        /\ index = <<>>
        /\ Answered => response.status = 500

C18_Witness ==
    /\ req.endpoint = "memory"
    /\ ~env.hasCreds
    /\ ~MissingInput
    /\ Answered
    /\ response.status = 500
    /\ response.error = <<"Missing Cloudflare credentials">>
    /\ calls = <<>>

\* ------------------------------------------------ claims on timestamps
\* a store call has just written a record
RecordWritten == Len(index') = Len(index) + 1

\* C19: every record's metadata.timestamp is assigned by the store call
\* itself: a caller-supplied metadata map cannot replace it with another
\* value, and the timestamp of a record is never earlier than the timestamp
\* of any record whose store call completed before this one began.
StoreStampsRecord ==
    RecordWritten => index'[Len(index')].metadata.timestamp = now

TimestampsNeverBackdated ==
    \A i, j \in 1..Len(index) :
        i < j => index[i].metadata.timestamp <= index[j].metadata.timestamp

C19_TimestampAssignedAtStore ==
    [][StoreStampsRecord]_vars /\ []TimestampsNeverBackdated

\* ------------------------------------------- claims on dimensionality
Dims(points) == { points[i].values.dim : i \in 1..Len(points) }

\* the points of the call do not all have the length of each other and of
\* the records already in the index
Mismatched(before, points) == Cardinality(Dims(before \o points)) > 1

\* C20: an insert whose records have embeddings of different lengths, or a
\* length different from that of the records already in the index (a
\* zero-length embedding included), fails with an error before any of its
\* records is written; the index never holds two records of different
\* dimensionality.
C20_MismatchedInsertFails ==
    /\ Cardinality(Dims(index)) <= 1
    /\ (lastCall.op \in {"insert", "storeMultiple"}
          /\ lastCall.points # <<>>
          /\ Mismatched(lastCall.before, lastCall.points))
       => (lastCall.threw /\ index = lastCall.before)

\* ------------------------------------------ claims on the clear endpoint
\* C21: the memory clear endpoint returns an informational success and
\* deletes nothing: the set of stored memories is the same after the call as
\* before it, and no vector-store operation is invoked.
C21_ClearDeletesNothing ==
    [][(pc = "mem_delete" /\ pc' = "done") =>
          /\ index' = index
          /\ calls' = calls
          /\ response'.status = 200
          /\ response'.success
          /\ response'.message = ClearMessage]_vars

C21_Witness ==
    /\ req.endpoint = "memory_clear"
    /\ Answered
    /\ response.status = 200
    /\ response.success
    /\ calls = <<>>
    /\ index # <<>>

\* -------------------------------- claims on the concurrent frame calls
PendingFrames == { i \in 1..Len(frameState) : frameState[i].status = "pending" }

\* the handler has started the describeImage calls of the request
FramesStarted ==
    \/ pc \in {"vid_frames", "vid_answer", "vid_store"}
    \/ pc = "done" /\ (CallsOf("describeImage") # {} \/ CallsOf("complete") # {})

\* C22: the video pipeline invokes describeImage for exactly min(5, number of
\* submitted frames) frames, all started before any is awaited, and issues
\* its single complete call only after every one of those calls has
\* finished.
StartsEveryFrameAtOnce ==
    (pc = "vid_start" /\ pc' \in {"vid_frames", "vid_answer"}) =>
        /\ Len(frameState') = Min(FrameLimit, req.numFrames)
        /\ \A i \in 1..Len(frameState') : frameState'[i] = PendingFrame
        /\ calls' = calls

JoinsBeforeComplete ==
    (IsVideo /\ FramesStarted) =>
        /\ Len(frameState) = Min(FrameLimit, req.numFrames)
        /\ Cardinality(CallsOf("describeImage"))
             = Len(frameState) - Cardinality(PendingFrames)
        /\ \A i, j \in CallsOf("describeImage") :
               calls[i].arg = calls[j].arg => i = j
        /\ Cardinality(CallsOf("complete")) <= 1
        /\ \A c \in CallsOf("complete") :
               /\ PendingFrames = {}
               /\ Cardinality({ d \in CallsOf("describeImage") : d < c })
                    = Min(FrameLimit, req.numFrames)

C22_FramesConcurrentThenJoin ==
    [][StartsEveryFrameAtOnce]_vars /\ []JoinsBeforeComplete

C22_Witness ==
    /\ IsVideo
    /\ req.numFrames = FrameLimit + 1
    /\ Answered
    /\ response.status = 200
    /\ Cardinality(CallsOf("describeImage")) = FrameLimit
    /\ Cardinality(CallsOf("complete")) = 1
    /\ calls[1].arg # <<"1">>

\* ------------------------------------- claims on the collaborator clients
\* C23: across any sequence of requests in one process, each collaborator
\* client (Inference Gateway, Vector Memory Store, Object Upload
\* Collaborator) is constructed at most once and the same instance is reused
\* by every later request.
C23_ClientsConstructedOnce ==
    /\ instances.ai <= 1
    /\ instances.vectorize <= 1
    /\ instances.r2 <= 1

\* ------------------------------------------------------ claims on retries
\* the most calls of an operation one request makes
CallLimit(op) ==
    IF op = "store" /\ req.endpoint = "chat" THEN 2
    ELSE IF op = "describeImage" /\ IsVideo THEN FrameLimit
    ELSE 1

CallOps == { calls[i].op : i \in 1..Len(calls) }

\* C24: within one request no collaborator operation is re-invoked after it
\* fails: upload, transcribe, the answering complete call and store are each
\* invoked at most once per request (store at most twice in a chat turn), and
\* describeImage at most once per frame.
C24_NoRetries ==
    /\ \A op \in CallOps : Cardinality(CallsOf(op)) <= CallLimit(op)
    /\ \A i, j \in CallsOf("describeImage") : calls[i].arg = calls[j].arg => i = j
    /\ \A i, j \in 1..Len(calls) :
           (i < j /\ ~calls[i].ok /\ calls[j].op = calls[i].op)
             => (calls[i].op = "describeImage" /\ calls[j].arg # calls[i].arg)

C24_Witness ==
    /\ req.endpoint = "chat"
    /\ Answered
    /\ response.status = 500
    /\ Cardinality(CallsOf("store")) = 2
    /\ ~calls[Len(calls)].ok
    /\ Cardinality(CallsOf("complete")) = 1

\* -------------------------------------- claims on the stores of a chat turn
\* complete succeeded and the store of the assistant response then failed
ReplyStoreFailed ==
    /\ IsChatTurn
    /\ \E c \in CallsOf("complete") : calls[c].ok
    /\ Cardinality(CallsOf("store")) = 2
    /\ ~calls[Len(calls)].ok
    /\ calls[Len(calls)].op = "store"

\* the record of the turn's user message is in the index
UserMessageStored ==
    \E k \in 1..Len(index) :
        /\ index[k].id \in ownIds
        /\ index[k].metadata.content = req.message
        /\ index[k].metadata.role = "user"

\* C25: in a chat turn with useMemory, if storing the assistant response
\* fails after complete has succeeded, chatWithContext fails without
\* returning the generated response, and the user-message record stored
\* earlier in the same turn remains in memory.
C25_TurnStoresNotAtomic ==
    (ReplyStoreFailed /\ Answered) =>
        /\ response.status = 500
        /\ response.response = NoText
        /\ UserMessageStored

C25_Witness ==
    /\ ReplyStoreFailed
    /\ Answered
    /\ response.status = 500
    /\ UserMessageStored
    /\ Truthy(answer)

\* -------------------------------------- claims on the stored text and type
\* C26: every record inserted by storeMemory(content, type, metadata)
\* persists metadata.content equal to content and metadata.type equal to
\* type, for every caller-supplied metadata map: the stored text is always the
\* text the embedding was computed from.
C26_StoredTextIsEmbeddedText ==
    [][(pc = "mem_store" /\ RecordWritten) =>
          /\ index'[Len(index')].metadata.content = req.content
          /\ index'[Len(index')].metadata.type = req.type]_vars

\* ------------------------------------ claims on the order of frame results
\* the describeImage calls of the request completed in another order than
\* the order of the frames
CompletedOutOfOrder ==
    \E c, d \in CallsOf("describeImage") :
        c < d /\ calls[c].arg = <<"2">> /\ calls[d].arg = <<"1">>

\* C27: the frameAnalyses list returned by the video pipeline has one entry
\* per analysed frame, in the order of the submitted frames, each carrying
\* its own frame's timestamp and description, whatever order the concurrent
\* describeImage calls complete in.
C27_FrameAnalysesInFrameOrder ==
    (IsVideo /\ Answered /\ response.status = 200) =>
        /\ Len(response.frameAnalyses) = Min(FrameLimit, req.numFrames)
        /\ \A i \in 1..Len(response.frameAnalyses) :
               /\ response.frameAnalyses[i].timestamp = FrameTimestamp(i)
               /\ response.frameAnalyses[i].description
                    = frameState[i].description

C27_Witness ==
    /\ IsVideo /\ Answered /\ response.status = 200
    /\ Len(response.frameAnalyses) >= 2
    /\ CompletedOutOfOrder

\* ------------------------------------ claims on the audio upload notice
\* the text says that the file was uploaded to storage successfully
ClaimsUploaded(text) ==
    \/ Includes(text, "uploaded to R2 successfully")
    \/ Includes(text, "uploaded to R2 storage successfully")
    \/ Includes(text, "uploaded successfully")

UploadSucceeded == \E i \in CallsOf("upload") : calls[i].ok

\* C28: an audio response (transcript or answer) states that the file was
\* uploaded to storage successfully only if the upload stage of that same
\* request was attempted and succeeded.
C28_UploadNoticeIsTrue ==
    (AudioAnswered
     /\ (ClaimsUploaded(response.transcript) \/ ClaimsUploaded(response.answer)))
    => UploadSucceeded

\* ------------------------------------ claims on the VideoUpload component
\* handleAnalyze has submitted its video request
VideoSubmitted ==
    client.op = "handleAnalyze" /\ client.stage \in {"analyzing", "shown"}

\* C29: when the VideoUpload client extracts audio and receives a success
\* response from the audio endpoint, the audioTranscript it then submits to
\* the video endpoint equals the transcript that the audio endpoint
\* returned.
C29_SubmittedTranscriptIsReturned ==
    (VideoSubmitted /\ client.audioExtracted /\ client.audioOk)
    => req.audioTranscript = client.transcriptData.transcript

\* --------------------------------------------- claims on extractFrames
Extracting == client.op = "extractFrames" /\ client.stage = "seeking"

Resolved == client.op = "extractFrames" /\ client.stage = "resolved"

\* the resolved frames: between 1 and maxFrames of them, with strictly
\* increasing timestamps that never exceed the duration
ResolvedFramesValid ==
    Resolved =>
        /\ Len(client.frames) >= 1
        /\ Len(client.frames) <= client.maxFrames
        /\ \A i \in 1..Len(client.frames) :
               /\ client.frames[i].timestamp <= client.duration
               /\ client.frames[i].timestamp >= 0
               /\ i > 1 => client.frames[i - 1].timestamp
                             < client.frames[i].timestamp

====
